---- MODULE Spec2Model ----
(***************************************************************************)
(* Model of uploaders/common.go: construction of an HTTPUploader from a    *)
(* 'start' operation option map, ExtractDictionary, ComputeMD5 and the     *)
(* step-by-step execution of HTTPUploader.UploadFile.                      *)
(*                                                                         *)
(* Go strings are sequences of one-character strings, so that ToUpper,     *)
(* HasPrefix, TrimPrefix, header canonicalisation and base64 are computed  *)
(* rather than assumed.  A Go map[string]string is a function whose DOMAIN *)
(* is the set of keys.  A Go error is a record with a msg field; nil is    *)
(* NoError.                                                                *)
(***************************************************************************)
EXTENDS Integers, Sequences, FiniteSets, TLC

VARIABLES
    options,        \* NewHTTPUploader / ExtractDictionary: the option map passed in
    serverCert,     \* NewHTTPUploader: the CA certificate path passed in
    uploader,       \* the value NewHTTPUploader returned (NoUploader for nil)
    newErr,         \* the error NewHTTPUploader returned
    prefix,         \* ExtractDictionary: the prefix passed in
    info,           \* ExtractDictionary: the map returned
    file,           \* the *os.File: content, read position, and the I/O done on it
    md5Calls,       \* ComputeMD5: one record per call made on the handle, oldest first
    pc,             \* UploadFile: the statement to execute next
    useChecksum,    \* UploadFile: the useChecksum argument
    stats,          \* UploadFile: stats.Size()
    req,            \* UploadFile: the *http.Request being built
    pending,        \* UploadFile: the keys of u.headers the range loop has not visited
    transport,      \* UploadFile: the *http.Transport chosen
    sent,           \* the requests handed to client.Do, with the body the file yields
    resp,           \* the *http.Response received (NoResponse if none)
    result,         \* UploadFile: the error returned
    listenerCalls,  \* the arguments of every call of listener, oldest first
    caReads,        \* the paths ioutil.ReadFile was called on, oldest first
    failed          \* the lower-level steps of this UploadFile call that failed

ctorVars == <<options, serverCert, uploader, newErr, prefix, info>>
upVars   == <<pc, useChecksum, stats, req, pending, transport, sent, resp, result,
              listenerCalls, caReads, failed>>
vars     == <<ctorVars, file, md5Calls, upVars>>

----------------------------------------------------------------------------
(* Bounds of the model *)

\* longest file content, in bytes
MaxLen == 2
\* most ComputeMD5 calls made on one handle
MaxCalls == 2

----------------------------------------------------------------------------
(* Strings *)

lower == <<"a", "b", "c", "d", "e", "f", "g", "h", "i", "j", "k", "l", "m", "n", "o", "p", "q", "r", "s", "t", "u", "v", "w", "x", "y", "z">>
upper == <<"A", "B", "C", "D", "E", "F", "G", "H", "I", "J", "K", "L", "M", "N", "O", "P", "Q", "R", "S", "T", "U", "V", "W", "X", "Y", "Z">>
digits == <<"0", "1", "2", "3", "4", "5", "6", "7", "8", "9">>

IndexIn(c, alphabet) ==
    IF \E i \in DOMAIN alphabet : alphabet[i] = c
    THEN CHOOSE i \in DOMAIN alphabet : alphabet[i] = c
    ELSE 0

IsLower(c) == IndexIn(c, lower) > 0
IsUpper(c) == IndexIn(c, upper) > 0
IsLetter(c) == IsLower(c) \/ IsUpper(c)
IsDigit(c) == IndexIn(c, digits) > 0

ToUpperChar(c) == IF IsLower(c) THEN upper[IndexIn(c, lower)] ELSE c
ToLowerChar(c) == IF IsUpper(c) THEN lower[IndexIn(c, upper)] ELSE c

\* a plausible slip: the method is stored as given
ToUpperIdentity(s) == s

\* strings.ToUpper
ToUpper(s) == [i \in DOMAIN s |-> ToUpperChar(s[i])]

\* strings.ToLower
ToLower(s) == [i \in DOMAIN s |-> ToLowerChar(s[i])]

\* a plausible slip: the prefix is looked for anywhere at the front, length unchecked
HasPrefixLoose(s, p) ==
    \A i \in DOMAIN p : i \in DOMAIN s => s[i] = p[i]

\* strings.HasPrefix
HasPrefix(s, p) ==
    /\ Len(s) >= Len(p)
    /\ SubSeq(s, 1, Len(p)) = p

\* strings.TrimPrefix
TrimPrefix(s, p) ==
    IF HasPrefix(s, p) THEN SubSeq(s, Len(p) + 1, Len(s)) ELSE s

----------------------------------------------------------------------------
(* Constants of the package *)

URLProp == <<"h", "t", "t", "p", "s", ".", "u", "r", "l">>
MethodProp == <<"h", "t", "t", "p", "s", ".", "m", "e", "t", "h", "o", "d">>
HeadersPrefix == <<"h", "t", "t", "p", "s", ".", "h", "e", "a", "d", "e", "r", ".">>
ContentMD5 == <<"C", "o", "n", "t", "e", "n", "t", "-", "M", "D", "5">>
ContentType == <<"C", "o", "n", "t", "e", "n", "t", "-", "T", "y", "p", "e">>
DefaultContentType == <<"a", "p", "p", "l", "i", "c", "a", "t", "i", "o", "n", "/", "x", "-", "b", "i", "n", "a", "r", "y">>
PUT == <<"P", "U", "T">>
POST == <<"P", "O", "S", "T">>

\* the nil error
NoError == [msg |-> "nil"]
\* the nil Uploader
NoUploader == [nil |-> TRUE]

----------------------------------------------------------------------------
(* Maps *)

\* m[k] of a Go map: the zero value "" when the key is absent
Lookup(m, k) == IF k \in DOMAIN m THEN m[k] ELSE <<>>

EmptyMap == [k \in {} |-> <<>>]

\* the map m with key k set to v
MapSet(m, k, v) == [x \in DOMAIN m \cup {k} |-> IF x = k THEN v ELSE m[x]]

\* the map holding the entries of a and, for other keys, of b
MapMerge(a, b) ==
    [x \in DOMAIN a \cup DOMAIN b |-> IF x \in DOMAIN a THEN a[x] ELSE b[x]]

----------------------------------------------------------------------------
(* ExtractDictionary *)

ExtractDictionary(opts, pfx) ==
    LET keys == {key \in DOMAIN opts : HasPrefix(key, pfx)}
        newKeys == {TrimPrefix(key, pfx) : key \in keys}
    IN  [newKey \in newKeys |->
            opts[CHOOSE key \in keys : TrimPrefix(key, pfx) = newKey]]

----------------------------------------------------------------------------
(* SupportedCipherSuites *)

\* tls.CipherSuites(): the suites the platform classifies as secure
TLSCipherSuites ==
    << [ID |-> 4865, Name |-> "TLS_AES_128_GCM_SHA256"],
       [ID |-> 4866, Name |-> "TLS_AES_256_GCM_SHA384"],
       [ID |-> 49199, Name |-> "TLS_ECDHE_RSA_WITH_AES_128_GCM_SHA256"] >>

SupportedCipherSuites ==
    [i \in DOMAIN TLSCipherSuites |-> TLSCipherSuites[i].ID]

----------------------------------------------------------------------------
(* NewHTTPUploader *)

\* a plausible slip: only a missing key is refused, an empty value is not
URLNotSpecifiedKeyOnly(opts) == URLProp \notin DOMAIN opts

\* url := options[URLProp]; if url == ""
URLNotSpecified(opts) == Lookup(opts, URLProp) = <<>>

NewHTTPUploader(opts, cert) ==
    LET url == Lookup(opts, URLProp)
        method == IF MethodProp \notin DOMAIN opts
                  THEN PUT
                  ELSE ToUpper(opts[MethodProp])
        headers == ExtractDictionary(opts, HeadersPrefix)
    IN  IF URLNotSpecified(opts)
        THEN [uploader |-> NoUploader,
              err |-> [msg |-> "upload URL not specified"]]
        ELSE IF method # PUT /\ method # POST
        THEN [uploader |-> NoUploader,
              err |-> [msg |-> "unsupported HTTP method", value |-> method]]
        ELSE [uploader |-> [url |-> url, headers |-> headers, method |-> method,
                            serverCert |-> cert,
                            cipherSuites |-> SupportedCipherSuites],
              err |-> NoError]

----------------------------------------------------------------------------
(* Files *)

\* the byte values file contents are made of
FileBytes == {0, 255}

RECURSIVE SeqsUpTo(_, _)
\* the sequences over S of length at most n
SeqsUpTo(S, n) ==
    IF n = 0 THEN {<<>>}
    ELSE LET shorter == SeqsUpTo(S, n - 1)
         IN  shorter \cup {Append(q, x) : q \in {r \in shorter : Len(r) = n - 1}, x \in S}

Contents == SeqsUpTo(FileBytes, MaxLen)

\* an open handle on a file of the given content: the read position it was handed
\* over at, its read position now, and the reads and seeks done through it so far
OpenFile(content, pos) ==
    [content |-> content, start |-> pos, pos |-> pos, ops |-> <<>>]

\* what reading the handle to the end yields
Remaining(f) == SubSeq(f.content, f.pos + 1, Len(f.content))

\* the outcomes the operating system can give the I/O of one ComputeMD5 call:
\* the read either completes or fails after readN bytes, the seek succeeds or fails
IOOutcomes(f) ==
    [readErr : {FALSE}, readN : {Len(Remaining(f))}, seekErr : BOOLEAN]
    \cup [readErr : {TRUE}, readN : 0 .. Len(Remaining(f)), seekErr : {FALSE}]

----------------------------------------------------------------------------
(* The digest and its text encoding *)

RECURSIVE Md5Fold(_, _)
Md5Fold(h, bytes) ==
    IF bytes = <<>> THEN h
    ELSE Md5Fold((h * 31 + Head(bytes) + 1) % 65536, Tail(bytes))

\* md5.New, Write, Sum(nil).  The 128-bit digest is stood for by a 16-bit one:
\* a fixed-size byte string, determined by the bytes written, not injective
Md5Sum(bytes) ==
    LET h == Md5Fold(26437, bytes)
    IN  <<h \div 256, h % 256>>

b64 == <<"A", "B", "C", "D", "E", "F", "G", "H", "I", "J", "K", "L", "M", "N", "O", "P", "Q", "R", "S", "T", "U", "V", "W", "X", "Y", "Z", "a", "b", "c", "d", "e", "f", "g", "h", "i", "j", "k", "l", "m", "n", "o", "p", "q", "r", "s", "t", "u", "v", "w", "x", "y", "z", "0", "1", "2", "3", "4", "5", "6", "7", "8", "9", "+", "/">>

RECURSIVE Base64Encode(_)
\* base64.StdEncoding.EncodeToString: three bytes to four characters, "=" padding
Base64Encode(b) ==
    IF Len(b) = 0 THEN <<>>
    ELSE IF Len(b) = 1
    THEN << b64[b[1] \div 4 + 1], b64[(b[1] % 4) * 16 + 1], "=", "=" >>
    ELSE IF Len(b) = 2
    THEN << b64[b[1] \div 4 + 1], b64[(b[1] % 4) * 16 + b[2] \div 16 + 1],
            b64[(b[2] % 16) * 4 + 1], "=" >>
    ELSE << b64[b[1] \div 4 + 1], b64[(b[1] % 4) * 16 + b[2] \div 16 + 1],
            b64[(b[2] % 16) * 4 + b[3] \div 64 + 1], b64[(b[3] % 64) + 1] >>
         \o Base64Encode(SubSeq(b, 4, Len(b)))

----------------------------------------------------------------------------
(* ComputeMD5 *)

\* f.Seek(0, 0) as ComputeMD5 calls it: the error it returns is dropped
SeekStart(f, env) ==
    [f EXCEPT !.pos = IF env.seekErr THEN f.pos ELSE 0,
              !.ops = Append(f.ops, "seek")]

\* ComputeMD5(f, encodeBase64) under the I/O outcomes env: the value and error
\* returned, the handle afterwards, and the steps that failed
ComputeMD5(f, encodeBase64, env) ==
    LET copied == [f EXCEPT !.pos = f.pos + env.readN,
                            !.ops = Append(f.ops, "read")]
        md5 == Md5Sum(Remaining(f))
    IN  IF env.readErr
        THEN [val |-> <<>>, err |-> [msg |-> "file read error"], file |-> copied,
              failed |-> {"read"}]
        ELSE [val |-> IF ~encodeBase64 THEN md5 ELSE Base64Encode(md5),
              err |-> NoError,
              file |-> SeekStart(copied, env),
              failed |-> IF env.seekErr THEN {"seek"} ELSE {}]

----------------------------------------------------------------------------
(* URLs, headers, transports and responses, as net/url and net/http treat them *)

\* the first index of u at which the scheme scan of url.Parse stops, 0 if none
SchemeStop(u) ==
    LET stops == {i \in DOMAIN u :
                    /\ ~IsLetter(u[i])
                    /\ ~(i > 1 /\ (IsDigit(u[i]) \/ u[i] \in {"+", "-", "."}))}
    IN  IF stops = {} THEN 0 ELSE CHOOSE i \in stops : \A j \in stops : i <= j

\* url.Parse, as far as the scheme: "missing protocol scheme" for a leading colon,
\* otherwise the lower-cased text before the first colon, "" without one
ParseURL(u) ==
    LET i == SchemeStop(u)
    IN  IF i = 1 /\ u[i] = ":"
        THEN [err |-> [msg |-> "missing protocol scheme"], Scheme |-> <<>>]
        ELSE IF i > 1 /\ u[i] = ":"
        THEN [err |-> NoError, Scheme |-> ToLower(SubSeq(u, 1, i - 1))]
        ELSE [err |-> NoError, Scheme |-> <<>>]

\* textproto.CanonicalMIMEHeaderKey: upper case at the start and after a hyphen,
\* lower case elsewhere; a key holding a byte no header name may hold is kept as is
CanonicalHeaderKey(k) ==
    IF \E i \in DOMAIN k : ~(IsLetter(k[i]) \/ IsDigit(k[i]) \/ k[i] \in {"-", ".", "_"})
    THEN k
    ELSE [i \in DOMAIN k |->
            IF i = 1 \/ k[i - 1] = "-" THEN ToUpperChar(k[i]) ELSE ToLowerChar(k[i])]

\* a plausible slip: Header.Add semantics, the value set first is the one sent
HeaderSetKeepFirst(h, name, value) ==
    IF CanonicalHeaderKey(name) \in DOMAIN h THEN h
    ELSE MapSet(h, CanonicalHeaderKey(name), value)

\* http.Header.Set
HeaderSet(h, name, value) == MapSet(h, CanonicalHeaderKey(name), value)

\* the nil *http.Request, *http.Response and *tls.Config
NoRequest == [nil |-> TRUE]
NoResponse == [nil |-> TRUE]
NoTLSConfig == [nil |-> TRUE]

\* the files ioutil.ReadFile can read
ReadableFiles == {"/etc/ca.pem"}

\* a plausible slip: the error of ioutil.ReadFile is logged and not returned
getHTTPTransportLogOnly(u) ==
    [transport |->
        [TLSClientConfig |->
            [InsecureSkipVerify |-> FALSE,
             RootCAs |-> [nil |-> TRUE],
             MinVersion |-> "TLS12",
             MaxVersion |-> "TLS13",
             CipherSuites |-> u.cipherSuites]],
     err |-> NoError,
     reads |-> IF Len(u.serverCert) > 0 THEN <<u.serverCert>> ELSE <<>>]

\* u.getHTTPTransport: the transport and error returned, and the files it read
getHTTPTransport(u) ==
    LET hasCert == Len(u.serverCert) > 0
        readErr == hasCert /\ u.serverCert \notin ReadableFiles
        caCertPool == IF hasCert THEN [pemFrom |-> u.serverCert] ELSE [nil |-> TRUE]
    IN  [transport |->
            IF readErr THEN [nil |-> TRUE]
            ELSE [TLSClientConfig |->
                    [InsecureSkipVerify |-> FALSE,
                     RootCAs |-> caCertPool,
                     MinVersion |-> "TLS12",
                     MaxVersion |-> "TLS13",
                     CipherSuites |-> u.cipherSuites]],
         err |-> IF readErr THEN [msg |-> "CA read error", path |-> u.serverCert]
                 ELSE NoError,
         reads |-> IF hasCert THEN <<u.serverCert>> ELSE <<>>]

\* the status codes and status lines a server answers with
StatusLines ==
    [c \in {101, 200, 201, 299, 300, 503} |->
        CASE c = 101 -> "101 Switching Protocols"
          [] c = 200 -> "200 OK"
          [] c = 201 -> "201 Created"
          [] c = 299 -> "299 Miscellaneous"
          [] c = 300 -> "300 Multiple Choices"
          [] c = 503 -> "503 Service Unavailable"]

Responses == {[StatusCode |-> c, Status |-> StatusLines[c]] : c \in DOMAIN StatusLines}

\* a plausible slip: the upper bound of the success range is excluded
StatusFailedOffByOne(code) == code < 200 \/ code >= 299

\* the test UploadFile makes of resp.StatusCode
StatusFailed(code) == code < 200 \/ code > 299

----------------------------------------------------------------------------
(* Inputs *)

\* the maps with one entry per key of keys, the value drawn from values
EntryChoices(key, values) ==
    {EmptyMap} \cup {[k \in {key} |-> v] : v \in values}

\* the value an option map gives a header key: different for different keys
HeaderValue(key) == <<"v", ":">> \o TrimPrefix(key, HeadersPrefix)

HeaderChoices(keys) ==
    {[k \in chosen |-> HeaderValue(k)] : chosen \in SUBSET keys}

UrlHttp == <<"h", "t", "t", "p", ":", "/", "/", "h">>
UrlHttps == <<"h", "t", "t", "p", "s", ":", "/", "/", "h">>
UrlHttpsUpper == <<"H", "T", "T", "P", "S", ":", "/", "/", "h">>
UrlNoScheme == <<"h">>
UrlBad == <<":", "/", "/", "h">>

KeyContentMD5 == HeadersPrefix \o ContentMD5
KeyContentType == HeadersPrefix \o ContentType
KeyContentTypeLower == HeadersPrefix \o ToLower(ContentType)
KeyXFoo == HeadersPrefix \o <<"X", "-", "F", "o", "o">>
KeyNearPrefix == <<"h", "t", "t", "p", "s", ".", "h", "e", "a", "d", "e", "r", "X">>
KeyOther == <<"o", "t", "h", "e", "r">>

MethodValues ==
    { <<>>, PUT, POST, <<"p", "u", "t">>, <<"P", "o", "s", "t">>, <<"p", "O", "s", "T">>,
      <<"g", "e", "t">>, <<"G", "E", "T">>, <<"p", "u", "t", "s">> }

\* the option maps NewHTTPUploader and ExtractDictionary are called with
OptionMaps ==
    { MapMerge(u, MapMerge(m, h)) :
        u \in EntryChoices(URLProp, {<<>>, UrlHttp, UrlHttps}),
        m \in EntryChoices(MethodProp, MethodValues),
        h \in HeaderChoices({KeyXFoo, HeadersPrefix, KeyNearPrefix, KeyOther}) }

\* the prefixes ExtractDictionary is called with
Prefixes == {HeadersPrefix, <<>>, <<"h", "t", "t", "p", "s", ".">>, URLProp, KeyXFoo}

\* the CA certificate paths: none, a readable file, a file that cannot be read
CertPaths == {"", "/etc/ca.pem", "/etc/missing.pem"}

\* the option maps of the uploaders UploadFile is run on
UploadOptionMaps ==
    { MapMerge(u, MapMerge(m, h)) :
        u \in EntryChoices(URLProp, {UrlHttp, UrlHttps, UrlHttpsUpper, UrlNoScheme, UrlBad})
                \ {EmptyMap},
        m \in EntryChoices(MethodProp, {<<"p", "o", "s", "t">>}),
        h \in HeaderChoices({KeyContentMD5, KeyContentType, KeyContentTypeLower}) }

----------------------------------------------------------------------------
(* Initial states *)

NoCall ==
    /\ md5Calls = <<>>
    /\ useChecksum = FALSE
    /\ stats = 0
    /\ req = NoRequest
    /\ pending = {}
    /\ transport = [nil |-> TRUE]
    /\ sent = <<>>
    /\ resp = NoResponse
    /\ result = NoError
    /\ listenerCalls = <<>>
    /\ caReads = <<>>
    /\ failed = {}
    /\ prefix = <<>>
    /\ info = EmptyMap

\* before any call of the package
InitNew ==
    /\ NoCall
    /\ pc = "start"
    /\ options = EmptyMap
    /\ serverCert = ""
    /\ uploader = NoUploader
    /\ newErr = NoError
    /\ file = OpenFile(<<>>, 0)

\* a handle open on some file, at some read position
InitMD5 ==
    /\ NoCall
    /\ pc = "start"
    /\ options = EmptyMap
    /\ serverCert = ""
    /\ uploader = NoUploader
    /\ newErr = NoError
    /\ \E c \in Contents : \E p \in 0 .. Len(c) : file = OpenFile(c, p)

\* an uploader that NewHTTPUploader returned
Init ==
    /\ NoCall
    /\ pc = "idle"
    /\ options \in UploadOptionMaps
    /\ serverCert \in CertPaths
    /\ uploader = NewHTTPUploader(options, serverCert).uploader
    /\ newErr = NewHTTPUploader(options, serverCert).err
    /\ uploader # NoUploader
    /\ file = OpenFile(<<>>, 0)

----------------------------------------------------------------------------
(* Calls of NewHTTPUploader, ExtractDictionary and ComputeMD5 *)

NewHTTPUploaderCall ==
    /\ pc = "start"
    /\ \E o \in OptionMaps, c \in CertPaths :
        /\ options' = o
        /\ serverCert' = c
        /\ uploader' = NewHTTPUploader(o, c).uploader
        /\ newErr' = NewHTTPUploader(o, c).err
    /\ pc' = "new"
    /\ UNCHANGED <<prefix, info, file, md5Calls, useChecksum, stats, req, pending,
                   transport, sent, resp, result, listenerCalls, caReads, failed>>

ExtractDictionaryCall ==
    /\ pc = "start"
    /\ \E o \in OptionMaps, p \in Prefixes :
        /\ options' = o
        /\ prefix' = p
        /\ info' = ExtractDictionary(o, p)
    /\ pc' = "extracted"
    /\ UNCHANGED <<serverCert, uploader, newErr, file, md5Calls, useChecksum, stats, req,
                   pending, transport, sent, resp, result, listenerCalls, caReads, failed>>

ComputeMD5Call ==
    /\ pc \in {"start", "md5"}
    /\ Len(md5Calls) < MaxCalls
    /\ \E encodeBase64 \in BOOLEAN, env \in IOOutcomes(file) :
        LET r == ComputeMD5(file, encodeBase64, env)
        IN  /\ file' = r.file
            /\ md5Calls' = Append(md5Calls,
                              [encodeBase64 |-> encodeBase64, before |-> file,
                               val |-> r.val, err |-> r.err, failed |-> r.failed])
    /\ pc' = "md5"
    /\ UNCHANGED <<ctorVars, useChecksum, stats, req, pending, transport, sent, resp,
                   result, listenerCalls, caReads, failed>>

----------------------------------------------------------------------------
(* UploadFile, statement by statement *)

\* the error UploadFile returns for a response that StatusFailed
UploadFailedError(r) ==
    [msg |-> "upload failed", code |-> r.StatusCode, status |-> r.Status]

\* return err
Return(err) ==
    /\ result' = err
    /\ pc' = "done"

\* u.UploadFile(file, useChecksum, listener) is called on an open handle
UploadFileCall ==
    /\ pc = "idle"
    /\ \E c \in Contents : \E p \in 0 .. Len(c) : file' = OpenFile(c, p)
    /\ useChecksum' \in BOOLEAN
    /\ pc' = "stat"
    /\ UNCHANGED <<ctorVars, md5Calls, stats, req, pending, transport, sent, resp, result,
                   listenerCalls, caReads, failed>>

\* stats, err := file.Stat() succeeds
StatOK ==
    /\ pc = "stat"
    /\ stats' = Len(file.content)
    /\ pc' = "newRequest"
    /\ UNCHANGED <<ctorVars, file, md5Calls, useChecksum, req, pending, transport, sent,
                   resp, result, listenerCalls, caReads, failed>>

\* file.Stat() fails
StatFail ==
    /\ pc = "stat"
    /\ failed' = failed \cup {"stat"}
    /\ Return([msg |-> "stat error"])
    /\ UNCHANGED <<ctorVars, file, md5Calls, useChecksum, stats, req, pending, transport,
                   sent, resp, listenerCalls, caReads>>

\* req, err := http.NewRequest(u.method, u.url, file)
NewRequest ==
    /\ pc = "newRequest"
    /\ IF ParseURL(uploader.url).err # NoError
       THEN /\ failed' = failed \cup {"newRequest"}
            /\ Return(ParseURL(uploader.url).err)
            /\ UNCHANGED req
       ELSE /\ req' = [Method |-> uploader.method, URL |-> uploader.url,
                       Header |-> EmptyMap, ContentLength |-> 0]
            /\ pc' = "transport"
            /\ UNCHANGED <<failed, result>>
    /\ UNCHANGED <<ctorVars, file, md5Calls, useChecksum, stats, pending, transport, sent,
                   resp, listenerCalls, caReads>>

\* the scheme test of UploadFile
IsHTTPS(u) == ParseURL(u.url).Scheme = <<"h", "t", "t", "p", "s">>

\* transport := &http.Transport{}; for https, transport, err = u.getHTTPTransport()
ChooseTransport ==
    /\ pc = "transport"
    /\ IF IsHTTPS(uploader)
       THEN LET t == getHTTPTransport(uploader)
            IN  /\ caReads' = caReads \o t.reads
                /\ IF t.err # NoError
                   THEN /\ failed' = failed \cup {"transport"}
                        /\ Return(t.err)
                        /\ UNCHANGED transport
                   ELSE /\ transport' = t.transport
                        /\ pc' = "contentType"
                        /\ UNCHANGED <<failed, result>>
       ELSE /\ transport' = [TLSClientConfig |-> NoTLSConfig]
            /\ pc' = "contentType"
            /\ UNCHANGED <<caReads, failed, result>>
    /\ UNCHANGED <<ctorVars, file, md5Calls, useChecksum, stats, req, pending, sent, resp,
                   listenerCalls>>

\* req.Header.Set("Content-Type", "application/x-binary"); the range loop starts
SetContentType ==
    /\ pc = "contentType"
    /\ req' = [req EXCEPT !.Header = HeaderSet(req.Header, ContentType, DefaultContentType)]
    /\ pending' = DOMAIN uploader.headers
    /\ pc' = "headers"
    /\ UNCHANGED <<ctorVars, file, md5Calls, useChecksum, stats, transport, sent, resp,
                   result, listenerCalls, caReads, failed>>

\* one iteration of for name, value := range u.headers, in the order the map yields
ApplyHeader ==
    /\ pc = "headers"
    /\ \E name \in pending :
        /\ req' = [req EXCEPT !.Header = HeaderSet(req.Header, name, uploader.headers[name])]
        /\ pending' = pending \ {name}
    /\ UNCHANGED <<ctorVars, file, md5Calls, useChecksum, stats, transport, sent, resp,
                   result, listenerCalls, caReads, failed, pc>>

\* if useChecksum { md5, err := ComputeMD5(file, true); ...; req.Header.Set(ContentMD5, md5) }
Checksum ==
    /\ pc = "headers"
    /\ pending = {}
    /\ IF useChecksum
       THEN \E env \in IOOutcomes(file) :
              LET r == ComputeMD5(file, TRUE, env)
              IN  /\ file' = r.file
                  /\ md5Calls' = Append(md5Calls,
                                    [encodeBase64 |-> TRUE, before |-> file,
                                     val |-> r.val, err |-> r.err, failed |-> r.failed])
                  /\ failed' = failed \cup r.failed
                  /\ IF r.err # NoError
                     THEN /\ Return(r.err)
                          /\ UNCHANGED req
                     ELSE /\ req' = [req EXCEPT
                                        !.Header = HeaderSet(req.Header, ContentMD5, r.val)]
                          /\ pc' = "contentLength"
                          /\ UNCHANGED result
       ELSE /\ pc' = "contentLength"
            /\ UNCHANGED <<file, md5Calls, failed, req, result>>
    /\ UNCHANGED <<ctorVars, useChecksum, stats, pending, transport, sent, resp,
                   listenerCalls, caReads>>

\* req.ContentLength = stats.Size()
SetContentLength ==
    /\ pc = "contentLength"
    /\ req' = [req EXCEPT !.ContentLength = stats]
    /\ pc' = "do"
    /\ UNCHANGED <<ctorVars, file, md5Calls, useChecksum, stats, pending, transport, sent,
                   resp, result, listenerCalls, caReads, failed>>

\* the request as client.Do gets it: its body is what the handle yields from its position
Outgoing(outcome) ==
    [Method |-> req.Method, URL |-> req.URL, Header |-> req.Header,
     ContentLength |-> req.ContentLength, Body |-> Remaining(file), Outcome |-> outcome]

\* the transfer writer's test of the bytes the body yielded against ContentLength
BodyShort == req.ContentLength # 0 /\ Len(Remaining(file)) # req.ContentLength

\* the body has been read to its end
Drained(f) == [f EXCEPT !.pos = Len(f.content), !.ops = Append(f.ops, "read")]


\* client.Do(req): the transport refuses a URL whose scheme is neither http nor https
DoUnsupportedScheme ==
    /\ pc = "do"
    /\ ParseURL(req.URL).Scheme \notin {<<"h", "t", "t", "p">>, <<"h", "t", "t", "p", "s">>}
    /\ failed' = failed \cup {"do"}
    /\ Return([msg |-> "unsupported protocol scheme"])
    /\ UNCHANGED <<ctorVars, file, md5Calls, useChecksum, stats, req, pending, transport,
                   sent, resp, listenerCalls, caReads>>

\* client.Do(req): no connection to the host (DNS, refused, TLS handshake, timeout)
DoConnectFail ==
    /\ pc = "do"
    /\ ParseURL(req.URL).Scheme \in {<<"h", "t", "t", "p">>, <<"h", "t", "t", "p", "s">>}
    /\ sent' = Append(sent, Outgoing("connect failed"))
    /\ failed' = failed \cup {"do"}
    /\ Return([msg |-> "network error"])
    /\ UNCHANGED <<ctorVars, file, md5Calls, useChecksum, stats, req, pending, transport,
                   resp, listenerCalls, caReads>>

\* client.Do(req): the headers are written, the body ends before ContentLength bytes
DoBodyShort ==
    /\ pc = "do"
    /\ ParseURL(req.URL).Scheme \in {<<"h", "t", "t", "p">>, <<"h", "t", "t", "p", "s">>}
    /\ BodyShort
    /\ sent' = Append(sent, Outgoing("body short"))
    /\ file' = Drained(file)
    /\ failed' = failed \cup {"do"}
    /\ Return([msg |-> "ContentLength with Body length", want |-> req.ContentLength,
               got |-> Len(Remaining(file))])
    /\ UNCHANGED <<ctorVars, md5Calls, useChecksum, stats, req, pending, transport, resp,
                   listenerCalls, caReads>>

\* client.Do(req): the request is written in full and no response arrives
DoNoResponse ==
    /\ pc = "do"
    /\ ParseURL(req.URL).Scheme \in {<<"h", "t", "t", "p">>, <<"h", "t", "t", "p", "s">>}
    /\ ~BodyShort
    /\ sent' = Append(sent, Outgoing("no response"))
    /\ file' = Drained(file)
    /\ failed' = failed \cup {"do"}
    /\ Return([msg |-> "network error"])
    /\ UNCHANGED <<ctorVars, md5Calls, useChecksum, stats, req, pending, transport, resp,
                   listenerCalls, caReads>>

\* resp, err := client.Do(req) with err nil: the request is written and answered
DoResponse ==
    /\ pc = "do"
    /\ ParseURL(req.URL).Scheme \in {<<"h", "t", "t", "p">>, <<"h", "t", "t", "p", "s">>}
    /\ ~BodyShort
    /\ sent' = Append(sent, Outgoing("answered"))
    /\ file' = Drained(file)
    /\ resp' \in Responses
    /\ pc' = "status"
    /\ UNCHANGED <<ctorVars, md5Calls, useChecksum, stats, req, pending, transport, result,
                   listenerCalls, caReads, failed>>

\* if resp.StatusCode < 200 || resp.StatusCode > 299 { return fmt.Errorf(...) }; return nil
CheckStatus ==
    /\ pc = "status"
    /\ IF StatusFailed(resp.StatusCode)
       THEN Return(UploadFailedError(resp))
       ELSE Return(NoError)
    /\ UNCHANGED <<ctorVars, file, md5Calls, useChecksum, stats, req, pending, transport,
                   sent, resp, listenerCalls, caReads, failed>>

----------------------------------------------------------------------------
(* Specifications *)

NextNew ==
    \/ NewHTTPUploaderCall
    \/ ExtractDictionaryCall

NextMD5 == ComputeMD5Call

Next ==
    \/ UploadFileCall
    \/ StatOK
    \/ StatFail
    \/ NewRequest
    \/ ChooseTransport
    \/ SetContentType
    \/ ApplyHeader
    \/ Checksum
    \/ SetContentLength
    \/ DoUnsupportedScheme
    \/ DoConnectFail
    \/ DoBodyShort
    \/ DoNoResponse
    \/ DoResponse
    \/ CheckStatus

\* calls of NewHTTPUploader and ExtractDictionary
SpecNew == InitNew /\ [][NextNew]_vars

\* calls of ComputeMD5 on one handle
SpecMD5 == InitMD5 /\ [][NextMD5]_vars

\* one call of UploadFile on a constructed uploader
Spec == Init /\ [][Next]_vars

----------------------------------------------------------------------------
(* Properties of UploadFile *)

\* the sequence q of numbers never decreases
NonDecreasing(q) == \A i, j \in DOMAIN q : i <= j => q[i] <= q[j]

\* C1: when UploadFile returns success on a file of N bytes, listener has been
\* called during the call, with cumulative counts that never decrease and whose
\* last value is N.  (For an empty file, no call at all is accepted here too.)
C1_ProgressReachesSize ==
    (pc = "done" /\ result = NoError) =>
        /\ NonDecreasing(listenerCalls)
        /\ \/ listenerCalls = <<>> /\ Len(file.content) = 0
           \/ listenerCalls # <<>> /\ listenerCalls[Len(listenerCalls)] = Len(file.content)

\* C2: when a response is received, UploadFile returns success exactly when the
\* status code is in 200..299, and otherwise returns an error carrying the
\* status code and the status text of the response.
C2_StatusDecidesResult ==
    (pc = "done" /\ resp # NoResponse) =>
        /\ (result = NoError) <=> (resp.StatusCode \in 200 .. 299)
        /\ resp.StatusCode \notin 200 .. 299 =>
                result = [msg |-> "upload failed", code |-> resp.StatusCode,
                          status |-> StatusLines[resp.StatusCode]]

\* C2 happens: a 503 answer was turned into the error carrying 503
C2_Witness ==
    /\ pc = "done"
    /\ resp # NoResponse
    /\ resp.StatusCode = 503
    /\ result # NoError
    /\ result.code = 503

\* C4: every failure of a lower-level step of UploadFile (Stat, request
\* construction, transport build, the read and the seek of the digest
\* computation, request execution) makes UploadFile return an error; none is
\* swallowed so that the call goes on and returns success.
C4_NoFailureSwallowed ==
    (pc = "done" /\ failed # {}) => result # NoError

\* the URL of the uploader has scheme https
SchemeIsHTTPS == Lookup(options, URLProp) \in {UrlHttps, UrlHttpsUpper}

\* the CA certificate path of the uploader is set and the file cannot be read
CAUnreadable == serverCert # "" /\ serverCert \notin ReadableFiles

\* what C5 says of a call that has returned: nothing was handed to the HTTP
\* client, the handle was neither read nor repositioned, and the error is the
\* one ioutil.ReadFile gave
ReturnedCAReadError ==
    /\ result = [msg |-> "CA read error", path |-> serverCert]
    /\ sent = <<>>
    /\ file.ops = <<>>
    /\ file.pos = file.start
    /\ md5Calls = <<>>

\* what C5 says of http URLs and of an empty CA path
CAReadOnlyWhenNeeded ==
    /\ ~SchemeIsHTTPS => caReads = <<>>
    /\ (serverCert = "" /\ SchemeIsHTTPS /\ pc \in {"contentType", "headers", "contentLength", "do", "status"})
            => transport.TLSClientConfig.RootCAs = [nil |-> TRUE]

\* C5 as stated: with an https URL and a CA path that cannot be read, UploadFile
\* returns the read error without any network connection and without having
\* read or repositioned the file, whatever the checksum flag; with an http URL
\* the CA file is never read; with an empty CA path the trust pool is unset.
C5_Original ==
    /\ (pc = "done" /\ SchemeIsHTTPS /\ CAUnreadable) => ReturnedCAReadError
    /\ CAReadOnlyWhenNeeded

\* C5 as amended: the same, for the calls in which file.Stat succeeded (a call
\* whose Stat fails returns the Stat error before the transport is built).
C5_CAReadErrorBeforeNetwork ==
    /\ (pc = "done" /\ SchemeIsHTTPS /\ CAUnreadable /\ "stat" \notin failed)
            => ReturnedCAReadError
    /\ (pc = "done" /\ SchemeIsHTTPS /\ CAUnreadable)
            => sent = <<>> /\ file.ops = <<>> /\ file.pos = file.start
    /\ CAReadOnlyWhenNeeded

\* C5 happens: a call with the checksum requested returned the CA read error
C5_Witness ==
    /\ pc = "done"
    /\ SchemeIsHTTPS
    /\ CAUnreadable
    /\ useChecksum
    /\ Len(file.content) > 0
    /\ result = [msg |-> "CA read error", path |-> serverCert]


\* the name the Content-MD5 and Content-Type headers are sent under
SentMD5Name == CanonicalHeaderKey(ContentMD5)
SentTypeName == CanonicalHeaderKey(ContentType)

\* the requests of which something was written to the connection
Written == {i \in DOMAIN sent : sent[i].Outcome # "connect failed"}

\* C3: for a handle at its start, the request UploadFile sends declares the size
\* Stat read as content length and its body is the whole file, with the checksum
\* disabled and enabled; with it enabled Content-MD5 is the base64 MD5 digest of
\* those body bytes; with it disabled and no custom Content-MD5 configured, the
\* request has no Content-MD5 header.
C3_RequestCarriesWholeFile ==
    \A i \in Written :
        file.start = 0 =>
            /\ sent[i].ContentLength = Len(file.content)
            /\ sent[i].Body = file.content
            /\ useChecksum =>
                    /\ SentMD5Name \in DOMAIN sent[i].Header
                    /\ sent[i].Header[SentMD5Name] = Base64Encode(Md5Sum(sent[i].Body))
            /\ (~useChecksum /\ KeyContentMD5 \notin DOMAIN options) =>
                    SentMD5Name \notin DOMAIN sent[i].Header

\* the custom headers that are sent under the given name
CustomFor(name) ==
    {k \in DOMAIN uploader.headers : CanonicalHeaderKey(k) = name}

\* C10: the headers of the request are the default Content-Type, overridden by
\* every custom header of the same name, overridden in turn by the computed
\* Content-MD5 when, and only when, the checksum is requested; without the
\* checksum a custom Content-MD5 is sent as configured.
C10_HeaderPrecedence ==
    pc \in {"contentLength", "do", "status"} =>
        LET H == req.Header
            names == {SentTypeName} \cup {CanonicalHeaderKey(k) : k \in DOMAIN uploader.headers}
                        \cup (IF useChecksum THEN {SentMD5Name} ELSE {})
        IN  /\ DOMAIN H = names
            /\ \A n \in names :
                IF n = SentMD5Name /\ useChecksum
                THEN H[n] = md5Calls[Len(md5Calls)].val
                     /\ H[n] = Base64Encode(Md5Sum(Remaining(md5Calls[Len(md5Calls)].before)))
                ELSE IF CustomFor(n) # {}
                THEN H[n] \in {uploader.headers[k] : k \in CustomFor(n)}
                ELSE H[n] = DefaultContentType

\* C10 happens: a request is ready whose custom Content-Type replaced the default
\* and whose custom Content-MD5 was replaced by the computed one
C10_Witness ==
    /\ pc = "do"
    /\ useChecksum
    /\ ContentMD5 \in DOMAIN uploader.headers
    /\ req.Header[SentMD5Name] # uploader.headers[ContentMD5]
    /\ CustomFor(SentTypeName) # {}
    /\ req.Header[SentTypeName] # DefaultContentType
    /\ Len(file.content) > 0

----------------------------------------------------------------------------
(* Properties of NewHTTPUploader and ExtractDictionary *)

\* the method option is absent, or is PUT or POST in some letter case
MethodAcceptable ==
    \/ MethodProp \notin DOMAIN options
    \/ ToLower(options[MethodProp]) \in {ToLower(PUT), ToLower(POST)}

\* C6: with a non-empty URL option and a method option absent or PUT or POST in
\* any letter case, NewHTTPUploader succeeds, stores the given URL and stores the
\* method in upper case (PUT when absent); every uploader constructed has a
\* method among PUT and POST and a non-empty URL.
C6_ValidOptionsConstruct ==
    pc = "new" =>
        /\ (Lookup(options, URLProp) # <<>> /\ MethodAcceptable) =>
                /\ newErr = NoError
                /\ uploader # NoUploader
                /\ uploader.url = options[URLProp]
                /\ uploader.method \in {PUT, POST}
                /\ IF MethodProp \in DOMAIN options
                   THEN ToLower(uploader.method) = ToLower(options[MethodProp])
                   ELSE uploader.method = PUT
        /\ uploader # NoUploader =>
                /\ uploader.method \in {PUT, POST}
                /\ uploader.url # <<>>

\* C6 happens: a mixed-case method was accepted and stored in upper case
C6_Witness ==
    /\ pc = "new"
    /\ MethodProp \in DOMAIN options
    /\ options[MethodProp] = <<"p", "O", "s", "T">>
    /\ uploader # NoUploader
    /\ uploader.method = POST

\* C7: NewHTTPUploader returns no uploader and the error "upload URL not
\* specified" when the URL option is missing or empty, whatever the method; and
\* no uploader and the error "unsupported HTTP method", with the upper-cased
\* method, when the method option is present and is, in upper case, neither PUT
\* nor POST (an empty method included).
C7_InvalidOptionsRefused ==
    pc = "new" =>
        /\ Lookup(options, URLProp) = <<>> =>
                /\ uploader = NoUploader
                /\ newErr = [msg |-> "upload URL not specified"]
        /\ (Lookup(options, URLProp) # <<>> /\ ~MethodAcceptable) =>
                /\ uploader = NoUploader
                /\ newErr # NoError
                /\ newErr.msg = "unsupported HTTP method"
                /\ ToLower(newErr.value) = ToLower(options[MethodProp])
                /\ \A i \in DOMAIN newErr.value : ~IsLower(newErr.value[i])

\* C7 happens: an empty URL with a bad method was refused for the URL, and an
\* empty method was refused as unsupported
C7_Witness ==
    /\ pc = "new"
    /\ uploader = NoUploader
    /\ \/ /\ URLProp \in DOMAIN options
          /\ options[URLProp] = <<>>
          /\ MethodProp \in DOMAIN options
          /\ options[MethodProp] = <<"g", "e", "t">>
          /\ newErr.msg = "upload URL not specified"
       \/ /\ Lookup(options, URLProp) # <<>>
          /\ MethodProp \in DOMAIN options
          /\ options[MethodProp] = <<>>
          /\ newErr.msg = "unsupported HTTP method"

\* the key k is the prefix p followed by the name n
Splits(k, p, n) == k = p \o n

\* C9: the map ExtractDictionary returns holds, for every key of the input that
\* starts with the prefix, the rest of the key mapped to the value of the key,
\* and holds nothing else.
C9_ExtractDictionaryExact ==
    pc = "extracted" =>
        /\ \A k \in DOMAIN options :
              \A n \in {SubSeq(k, j, Len(k)) : j \in 1 .. Len(k) + 1} :
                  Splits(k, prefix, n) => n \in DOMAIN info /\ info[n] = options[k]
        /\ \A n \in DOMAIN info :
              /\ prefix \o n \in DOMAIN options
              /\ info[n] = options[prefix \o n]

\* C9 happens: a map with keys with and without the prefix was extracted from,
\* one key being the prefix itself
C9_Witness ==
    /\ pc = "extracted"
    /\ prefix = HeadersPrefix
    /\ {KeyXFoo, HeadersPrefix, KeyNearPrefix, URLProp} \subseteq DOMAIN options
    /\ DOMAIN info = {<<"X", "-", "F", "o", "o">>, <<>>}

----------------------------------------------------------------------------
(* Properties of ComputeMD5 *)

\* the handle as call i of ComputeMD5 left it
After(i) == IF i < Len(md5Calls) THEN md5Calls[i + 1].before ELSE file

\* the value ComputeMD5 is to return for the content c
DigestOf(c, encodeBase64) ==
    IF encodeBase64 THEN Base64Encode(Md5Sum(c)) ELSE Md5Sum(c)

\* C8: a successful ComputeMD5 call leaves the content unchanged and the read
\* position at 0, whatever the position before; from position 0 it returns the
\* digest of the whole content (base64 text or raw bytes), a full read after it
\* yields the whole content, and a second call returns the same value.
C8_DigestThenRewound ==
    \A i \in DOMAIN md5Calls :
        LET c == md5Calls[i]
        IN  c.err = NoError =>
                /\ After(i).content = c.before.content
                /\ After(i).pos = 0
                /\ c.before.pos = 0 =>
                        /\ c.val = DigestOf(c.before.content, c.encodeBase64)
                        /\ Remaining(After(i)) = c.before.content
                        /\ (i < Len(md5Calls)
                             /\ md5Calls[i + 1].err = NoError
                             /\ md5Calls[i + 1].encodeBase64 = c.encodeBase64)
                                => md5Calls[i + 1].val = c.val

====
